---- MODULE Spec2Model ----
(***************************************************************************)
(* Model of week2_mlp_practice.py: the MLP class (construction, fit,       *)
(* forward, backward, compute_loss, predict, score) and onehot.            *)
(*                                                                         *)
(* Arrays are modelled by their shape and by a tag that says how their     *)
(* contents were produced; floating-point values are not modelled:         *)
(*   rows, cols  the numpy shape                                           *)
(*   val         "uninit" (np.empty, never written), "X" (input rows),     *)
(*               "act" (activation output), "probs" (softmax output),      *)
(*               "grad" (softmax output with 1 subtracted at the labels),  *)
(*               "delta" (hidden error), "undef" (computed from            *)
(*               uninitialised memory: any value the build may produce)    *)
(*   dep         the update count of the weight matrix the array was       *)
(*               computed from (NoDep when it was computed from none)      *)
(* A weight matrix carries its shape, the number of in-place updates       *)
(* applied to it (ver) and what its last update read (rd).                 *)
(* Python lists are sequences; Get/Put use Python's 0-based indices.       *)
(***************************************************************************)
EXTENDS Integers, Sequences, FiniteSets, TLC

\* ------------------------------------------------------------------ bounds
MaxSamples == 3
MaxEpochs == 2
MaxFits == 2

\* ------------------------------------------------- inputs of the operations
InputSizes == {2}
OutputSizes == {2}
HiddenLayerSizes == {<<>>, <<2>>, <<3, 2>>}
BatchSizes == {-1, 0, 2, 4}
Activations == {"sigmoid", "tanh", "relu"}
OutputLayers == {"softmax", "linear"}
Losses == {"cross_entropy", "mse"}
Verboses == {0, 1, 2}

\* below every update count
NoDep == 0 - 1

\* ------------------------------------------------------------ list helpers
Get(s, i) == s[i + 1]
Put(s, i, v) == [s EXCEPT ![i + 1] = v]
Last(s) == s[Len(s)]
Range0(n) == [k \in 1..n |-> k - 1]

RECURSIVE Reversed(_)
Reversed(s) == IF s = <<>> THEN <<>> ELSE Append(Reversed(Tail(s)), Head(s))

\* X[lo : hi] of a sequence (Python slice, clipped at the end)
Slice(s, lo, hi) ==
    LET h == IF hi > Len(s) THEN Len(s) ELSE hi
    IN  [k \in 1..(IF h > lo THEN h - lo ELSE 0) |-> s[lo + k]]

\* ----------------------------------------------------------- numpy helpers
Mat(r, c, v, d) == [rows |-> r, cols |-> c, val |-> v, dep |-> d]
Empty(r, c) == Mat(r, c, "uninit", NoDep)
Uniform(r, c) == [rows |-> r, cols |-> c, ver |-> 0, rd |-> <<>>]
UniformVec(n) == [len |-> n, ver |-> 0]

Defined(v) == v \notin {"uninit", "undef"}
Tag(ok, t) == IF ok THEN t ELSE "undef"

\* numpy broadcasting of one dimension
BroadcastOK(a, b) == a = b \/ a = 1 \/ b = 1
BDim(a, b) == IF a = 1 THEN b ELSE a
\* an in-place operation broadcasts the right-hand side to the target
IntoOK(d, target) == d = target \/ d = 1

Raise(st, e) == [st EXCEPT !.err = e]
Ok(s) == [self |-> s, err |-> "none"]

\* --------------------------------------------------------------- onehot
\* onehot(y): n columns where n is the number of distinct labels in y; row i
\* gets a 1 at column y[i], which is an IndexError when y[i] >= n.
onehot(y) ==
    LET n == Cardinality({y[j] : j \in 1..Len(y)})
        m == Len(y)
    IN  IF \E i \in 1..m : y[i] >= n
        THEN [err |-> "IndexError", b |-> <<>>]
        ELSE [err |-> "none",
              b |-> [i \in 1..m |-> [k \in 1..n |-> IF k - 1 = y[i] THEN 1 ELSE 0]]]

\* ------------------------------------------------------------- __init__
\* MLP.__init__: the activation and the output layer are checked, the loss
\* is stored as given.  lr, reg_lambda and momentum are floats that no shape
\* or control decision reads; they are not part of the modelled object.
MLP_init(input_size, output_size, hidden_layer_size, batch_size, activation, output_layer, loss, verbose) ==
    IF activation \notin {"sigmoid", "tanh"} THEN [self |-> <<>>, err |-> "ValueError"]
    ELSE IF output_layer # "softmax" THEN [self |-> <<>>, err |-> "ValueError"]
    ELSE Ok([input_size |-> input_size,
             output_size |-> output_size,
             hidden_layer_size |-> hidden_layer_size,
             batch_size |-> batch_size,
             n_layers |-> Len(hidden_layer_size),
             activation |-> activation,
             verbose |-> verbose,
             loss |-> loss,
             output_layer |-> output_layer,
             nclass |-> output_size,
             weights |-> <<>>,
             bias |-> <<>>,
             layers |-> <<>>,
             deltas |-> <<>>])

\* -------------------------------------------------------------- forward
\* np.dot(a, w): a is (r, c), w is (c2, k); ValueError unless c = c2
DotOK(a, w) == a.cols = w.rows

\* one pass of the hidden-layer loop of forward, from layer i on
RECURSIVE ForwardHidden(_, _)
ForwardHidden(st, i) ==
    LET s == st.self IN
    IF st.err # "none" \/ i >= s.n_layers THEN st
    ELSE IF i >= Len(s.layers) \/ i >= Len(s.weights) THEN Raise(st, "IndexError")
    ELSE IF ~DotOK(Get(s.layers, i), Get(s.weights, i)) THEN Raise(st, "ValueError")
    ELSE IF i + 1 >= Len(s.layers) THEN Raise(st, "IndexError")
    ELSE ForwardHidden(
            Ok([s EXCEPT !.layers = Put(s.layers, i + 1,
                    Mat(Get(s.layers, i).rows, Get(s.weights, i).cols,
                        Tag(Defined(Get(s.layers, i).val), "act"),
                        Get(s.weights, i).ver))]),
            i + 1)

\* the output layer of forward: layers[-1] = softmax(layers[-2] @ weights[-1] + bias[-1])
ForwardOutput(st) ==
    LET s == st.self IN
    IF st.err # "none" THEN st
    ELSE IF Len(s.layers) < 2 \/ Len(s.weights) < 1 THEN Raise(st, "IndexError")
    ELSE IF ~DotOK(s.layers[Len(s.layers) - 1], Last(s.weights)) THEN Raise(st, "ValueError")
    ELSE Ok([s EXCEPT !.layers = Put(s.layers, Len(s.layers) - 1,
                Mat(s.layers[Len(s.layers) - 1].rows, Last(s.weights).cols,
                    Tag(Defined(s.layers[Len(s.layers) - 1].val), "probs"),
                    Last(s.weights).ver))])

\* forward(X): layers[0] = X, the hidden layers, the output layer.  The
\* returned array is the object held at layers[-1].
forward(self, X) ==
    IF Len(self.layers) = 0 THEN Raise(Ok(self), "IndexError")
    ELSE ForwardOutput(ForwardHidden(Ok([self EXCEPT !.layers = Put(self.layers, 0, X)]), 0))

\* ------------------------------------------------------------- backward
\* lines 229-233: deltas[-1] = layers[-1] binds the SAME array object, and
\* the indexed "-= 1" then writes through it.  backward is only called by fit
\* right after forward, so that object is the array forward has just created:
\* it is referenced by layers[-1], by deltas[-1] and by the caller's probs,
\* and by nothing else.  The write is therefore made to both list slots here
\* and to probs by the caller of backward.
OutputDelta(st, r, y) ==
    LET s == st.self IN
    IF st.err # "none" \/ s.loss # "cross_entropy" THEN st
    ELSE IF Len(s.layers) = 0 \/ Len(s.deltas) = 0 THEN Raise(st, "IndexError")
    ELSE LET out == Last(s.layers)
             bound == Ok([s EXCEPT !.deltas = Put(s.deltas, Len(s.deltas) - 1, out)])
             written == [out EXCEPT !.val = IF out.val = "probs" THEN "grad" ELSE "undef"]
         IN  IF r > out.rows \/ ~BroadcastOK(r, Len(y))
                \/ \E k \in 1..Len(y) : y[k] >= out.cols
             THEN Raise(bound, "IndexError")
             ELSE Ok([s EXCEPT !.deltas = Put(s.deltas, Len(s.deltas) - 1, written),
                               !.layers = Put(s.layers, Len(s.layers) - 1, written)])

\* lines 237-238, the body of the delta loop for hidden layer i:
\*   deltas[i] = (deltas[i+1] @ weights[i+1].T) * activation_dfunc(layers[i+1])
HiddenDelta(st, i) ==
    LET s == st.self IN
    IF st.err # "none" THEN st
    ELSE IF i + 1 >= Len(s.deltas) \/ i + 1 >= Len(s.weights) THEN Raise(st, "IndexError")
    ELSE LET d == Get(s.deltas, i + 1)
             w == Get(s.weights, i + 1)
         IN  IF d.cols # w.cols THEN Raise(st, "ValueError")
             ELSE IF i + 1 >= Len(s.layers) THEN Raise(st, "IndexError")
             ELSE LET a == Get(s.layers, i + 1) IN
                  IF ~BroadcastOK(d.rows, a.rows) \/ ~BroadcastOK(w.rows, a.cols)
                  THEN Raise(st, "ValueError")
                  ELSE Ok([s EXCEPT !.deltas = Put(s.deltas, i,
                              Mat(BDim(d.rows, a.rows), BDim(w.rows, a.cols),
                                  Tag(Defined(d.val) /\ Defined(a.val), "delta"),
                                  w.ver))])

\* line 236: for i in reversed(range(self.n_layers)), from i down to 0
RECURSIVE HiddenDeltas(_, _)
HiddenDeltas(st, i) ==
    IF i < 0 THEN st ELSE HiddenDeltas(HiddenDelta(st, i), i - 1)

\* lines 242-248, the body of the update loop for layer l:
\*   weights[l] += -lr * (layers[l].T @ deltas[l] + reg_lambda * sum(weights[l], axis=0))
\*   bias[l]    += -lr * sum(deltas[l], axis=0)
UpdateLayer(st, l) ==
    LET s == st.self IN
    IF st.err # "none" THEN st
    ELSE IF l >= Len(s.weights) \/ l >= Len(s.layers) \/ l >= Len(s.deltas)
    THEN Raise(st, "IndexError")
    ELSE LET w == Get(s.weights, l)
             a == Get(s.layers, l)
             d == Get(s.deltas, l)
         IN  IF a.rows # d.rows \/ ~BroadcastOK(d.cols, w.cols)
                \/ ~IntoOK(a.cols, w.rows) \/ ~IntoOK(BDim(d.cols, w.cols), w.cols)
             THEN Raise(st, "ValueError")
             ELSE LET s1 == [s EXCEPT !.weights = Put(s.weights, l,
                                [w EXCEPT !.ver = w.ver + 1,
                                          !.rd = <<w.ver, a.val, a.dep, d.val, d.dep>>])]
                  IN  IF l >= Len(s.bias) THEN Raise(Ok(s1), "IndexError")
                      ELSE IF ~IntoOK(d.cols, Get(s.bias, l).len) THEN Raise(Ok(s1), "ValueError")
                      ELSE Ok([s1 EXCEPT !.bias = Put(s.bias, l,
                                [len |-> Get(s.bias, l).len, ver |-> Get(s.bias, l).ver + 1])])

\* the update loop run over the layers in the given order
RECURSIVE UpdateWeights(_, _)
UpdateWeights(st, order) ==
    IF order = <<>> THEN st
    ELSE UpdateWeights(UpdateLayer(st, Head(order)), Tail(order))

\* a backward that updates layer l+1 before it computes the delta of layer l
RECURSIVE UpdateThenDelta(_, _)
UpdateThenDelta(st, l) ==
    IF l < 0 THEN st
    ELSE UpdateThenDelta(
            IF l >= 1 /\ l - 1 < st.self.n_layers
            THEN HiddenDelta(UpdateLayer(st, l), l - 1)
            ELSE UpdateLayer(st, l),
            l - 1)

backwardInterleaved(self, r, y) ==
    UpdateThenDelta(OutputDelta(Ok(self), r, y), Len(self.weights) - 1)

\* backward(X, y), with r = X.shape[0]: output delta, hidden deltas, then
\* the update loop for l in range(len(self.weights))
backward(self, r, y) ==
    UpdateWeights(HiddenDeltas(OutputDelta(Ok(self), r, y), self.n_layers - 1),
                  Range0(Len(self.weights)))

\* ------------------------------------------- compute_loss, predict, score
\* compute_loss(X, y): forward(X), onehot(y), then y_mat * np.log(probs),
\* which broadcasts a (len(y), n) matrix against the (rows, cols) output.
compute_loss(self, X, y) ==
    LET fw == forward(self, X)
        oh == onehot(y)
    IN  IF fw.err # "none" THEN [self |-> fw.self, err |-> fw.err, y_mat |-> <<>>]
        ELSE IF oh.err # "none" THEN [self |-> fw.self, err |-> oh.err, y_mat |-> <<>>]
        ELSE IF ~BroadcastOK(Len(oh.b), Last(fw.self.layers).rows)
                \/ ~BroadcastOK(Len(oh.b[1]), Last(fw.self.layers).cols)
        THEN [self |-> fw.self, err |-> "ValueError", y_mat |-> oh.b]
        ELSE [self |-> fw.self, err |-> "none", y_mat |-> oh.b]

predict(self, X) == forward(self, X)

\* score(X, y): preds == y compares a (rows,) vector with y.  When the two
\* lengths do not broadcast, the numpy build either raises or yields False;
\* strict says which.
score(self, X, y, strict) ==
    LET fw == predict(self, X) IN
    IF fw.err # "none" THEN fw
    ELSE IF strict /\ ~BroadcastOK(Last(fw.self.layers).rows, Len(y))
    THEN Raise(fw, "ValueError")
    ELSE fw

\* ------------------------------------------------------------------ fit
\* a fit that compares the sample counts only after it has allocated
FitInitLateCheck(self, n_samples, n_features, ylen) ==
    LET h == self.hidden_layer_size
        dims == <<n_features>> \o h \o <<self.output_size>>
        s1 == [self EXCEPT
                 !.weights = @ \o [k \in 1..(Len(h) + 1) |-> Uniform(dims[k], dims[k + 1])],
                 !.bias = @ \o [k \in 1..(Len(h) + 1) |-> UniformVec(dims[k + 1])]]
        s2 == [s1 EXCEPT
                 !.layers = @ \o <<Empty(self.batch_size, self.input_size)>>
                              \o [k \in 1..Len(h) |-> Empty(self.batch_size, h[k])]
                              \o <<Empty(self.batch_size, self.output_size)>>,
                 !.deltas = @ \o [k \in 1..Len(h) |-> Empty(self.batch_size, h[k])]
                              \o <<Empty(self.batch_size, self.output_size)>>]
    IN  IF Len(h) = 0 THEN Raise(Ok(self), "IndexError")
        ELSE IF self.batch_size < 0 THEN Raise(Ok(s1), "ValueError")
        ELSE IF ylen # n_samples THEN Raise(Ok(s2), "ValueError")
        ELSE Ok(s2)

\* lines 131-162 of fit: the sample-count check, the weights and biases
\* appended to self.weights / self.bias, the buffers appended to
\* self.layers / self.deltas.
FitInit(self, n_samples, n_features, ylen) ==
    LET h == self.hidden_layer_size
        dims == <<n_features>> \o h \o <<self.output_size>>
        s1 == [self EXCEPT
                 !.weights = @ \o [k \in 1..(Len(h) + 1) |-> Uniform(dims[k], dims[k + 1])],
                 !.bias = @ \o [k \in 1..(Len(h) + 1) |-> UniformVec(dims[k + 1])]]
        s2 == [s1 EXCEPT
                 !.layers = @ \o <<Empty(self.batch_size, self.input_size)>>
                              \o [k \in 1..Len(h) |-> Empty(self.batch_size, h[k])]
                              \o <<Empty(self.batch_size, self.output_size)>>,
                 !.deltas = @ \o [k \in 1..Len(h) |-> Empty(self.batch_size, h[k])]
                              \o <<Empty(self.batch_size, self.output_size)>>]
    IN  IF ylen # n_samples THEN Raise(Ok(self), "ValueError")
        ELSE IF Len(h) = 0 THEN Raise(Ok(self), "IndexError")
        ELSE IF self.batch_size < 0 THEN Raise(Ok(s1), "ValueError")
        ELSE Ok(s2)

\* a shuffle that permutes X and leaves y in place
ShuffleXOnly(X, y, p) == [X |-> [k \in 1..Len(X) |-> X[p[k]]], y |-> y]

\* sklearn.utils.shuffle(X, y): one permutation p applied to both arrays
Perms(n) == {p \in [1..n -> 1..n] : \A a, b \in 1..n : p[a] = p[b] => a = b}
Shuffle(X, y, p) == [X |-> [k \in 1..Len(X) |-> X[p[k]]], y |-> [k \in 1..Len(y) |-> y[p[k]]]]

\* i % self.verbose == 0 (Python's %, whose result is 0 exactly when verbose divides i)
Reports(i, verbose) == IF verbose > 0 THEN i % verbose = 0 ELSE i % (-verbose) = 0

\* ---------------------------------------------------------------- state
VARIABLES
    pc,            \* "none": no model; "idle": between calls; "done": a call
                   \* has returned or raised and its outcome is in view;
                   \* inside fit:
                   \* "epoch" (head of the epoch loop), "batch" (head of the
                   \* batch loop body), "report" (line 182)
    self,          \* the MLP object
    err,           \* the exception the last step raised, or "none"
    at,            \* the step taken last
    X, y,          \* fit's X and y (rows of X are named by sample number)
    y0,            \* the y fit was called with
    shuffle_data,
    i, batch,      \* the loop variables of fit
    probs,         \* fit's probs (line 177)
    y_mat,         \* compute_loss's y_mat
    batches,       \* the X_batch slices processed so far in this epoch
    fits           \* number of fit calls made

vars == <<pc, self, err, at, X, y, y0, shuffle_data, i, batch,
          probs, y_mat, batches, fits>>

NoArray == Mat(0, 0, "none", NoDep)
Ids(n) == [k \in 1..n |-> k]
Rows(ids) == Mat(Len(ids), self.input_size, "X", NoDep)
Labels(n) == [1..n -> 0..(self.nclass - 1)]
\* the labels of a training set whose samples are numbered in the order of
\* their labels: any other training set is one of these with its samples
\* renumbered, and shuffling produces every arrangement of it
TrainLabels(n) == {yy \in Labels(n) : \A k \in 1..(n - 1) : yy[k] <= yy[k + 1]}

Init ==
    /\ pc = "none" /\ self = <<>> /\ err = "none" /\ at = "start"
    /\ X = <<>> /\ y = <<>> /\ y0 = <<>>
    /\ shuffle_data = FALSE /\ i = 0 /\ batch = 0
    /\ probs = NoArray /\ y_mat = <<>> /\ batches = <<>> /\ fits = 0

\* the locals of a call die when it returns or raises
Dead ==
    /\ X' = <<>> /\ y' = <<>> /\ y0' = <<>>
    /\ shuffle_data' = FALSE /\ i' = 0 /\ batch' = 0
    /\ probs' = NoArray /\ batches' = <<>>

\* ver, rd and dep describe the data flow of one fit call; they are cleared
\* when the call ends
Settled(s) ==
    [s EXCEPT !.weights = [k \in DOMAIN @ |-> [@[k] EXCEPT !.ver = 0, !.rd = <<>>]],
              !.bias = [k \in DOMAIN @ |-> [@[k] EXCEPT !.ver = 0]],
              !.layers = [k \in DOMAIN @ |-> [@[k] EXCEPT !.dep = NoDep]],
              !.deltas = [k \in DOMAIN @ |-> [@[k] EXCEPT !.dep = NoDep]]]

\* a step of fit raises: fit's locals die with the call
Abort(s, e, where) ==
    /\ pc' = "done" /\ self' = Settled(s) /\ err' = e /\ at' = where /\ y_mat' = <<>>
    /\ Dead /\ UNCHANGED fits

\* the construction arguments tried: the defaults below with at most one
\* argument changed
Default == [hidden_layer_size |-> <<2>>, batch_size |-> 2, activation |-> "sigmoid",
            output_layer |-> "softmax", loss |-> "cross_entropy", verbose |-> 1]
Changed(c) == Cardinality({f \in DOMAIN Default : c[f] # Default[f]})

Construct ==
    /\ pc = "none"
    /\ \E isz \in InputSizes, osz \in OutputSizes, h \in HiddenLayerSizes,
          b \in BatchSizes, a \in Activations, o \in OutputLayers,
          l \in Losses, v \in Verboses :
          /\ Changed([hidden_layer_size |-> h, batch_size |-> b, activation |-> a,
                      output_layer |-> o, loss |-> l, verbose |-> v]) <= 1
          /\ LET r == MLP_init(isz, osz, h, b, a, o, l, v) IN
             /\ pc' = IF r.err = "none" THEN "idle" ELSE "none"
             /\ self' = r.self
             /\ err' = r.err
    /\ at' = "construct"
    /\ UNCHANGED <<X, y, y0, shuffle_data, i, batch, probs, y_mat,
                   batches, fits>>

\* fit(X, y, max_epochs, shuffle_data), lines 131-162.  max_epochs is read
\* only by range(max_epochs) at the head of the epoch loop: the call's value,
\* any of 1..MaxEpochs, is the i at which the loop is left (FitReturn).
Fit ==
    /\ pc = "idle" /\ fits < MaxFits
    /\ \E n \in 1..MaxSamples, m \in 1..MaxSamples, sh \in BOOLEAN :
       \E yy \in TrainLabels(m) :
          LET r == FitInit(self, n, self.input_size, Len(yy)) IN
          /\ (m # n => \A k \in 1..m : yy[k] = 0)
          /\ self' = r.self /\ err' = r.err /\ at' = "fit" /\ fits' = fits + 1
          /\ X' = Ids(n) /\ y' = yy
          /\ y_mat' = <<>> /\ probs' = NoArray /\ batches' = <<>> /\ i' = 0 /\ batch' = 0
          /\ IF r.err = "none"
             THEN pc' = "epoch" /\ y0' = yy /\ shuffle_data' = sh
             ELSE pc' = "done" /\ y0' = <<>> /\ shuffle_data' = FALSE

\* lines 165-173: the next epoch starts (i < max_epochs): shuffle, then
\* range(0, n_samples, batch_size)
EpochBegin ==
    /\ pc = "epoch" /\ i < MaxEpochs
    /\ \E p \in Perms(Len(X)) :
          LET sh == IF shuffle_data THEN Shuffle(X, y, p) ELSE [X |-> X, y |-> y] IN
          /\ (~shuffle_data => p = Ids(Len(X)))
          /\ IF self.batch_size = 0
             THEN Abort(self, "ValueError", "shuffle")
             ELSE /\ X' = sh.X /\ y' = sh.y
                  /\ batch' = 0 /\ batches' = <<>> /\ pc' = "batch"
                  /\ err' = "none" /\ at' = "shuffle"
                  /\ UNCHANGED <<self, y0, shuffle_data, i, probs, y_mat, fits>>

\* line 188: the epoch loop is over (i = max_epochs, a positive number)
FitReturn ==
    /\ pc = "epoch" /\ i >= 1
    /\ pc' = "done" /\ err' = "none" /\ at' = "return" /\ y_mat' = <<>>
    /\ self' = Settled(self)
    /\ Dead /\ UNCHANGED fits

\* lines 175-180, one pass of the batch loop: the slices, forward, backward.
\* The array probs names is the one at layers[-1], so after backward it reads
\* what backward left there.
X_batch == Slice(X, batch, batch + self.batch_size)
y_batch == Slice(y, batch, batch + self.batch_size)

Batch ==
    /\ pc = "batch"
    /\ LET fw == forward(self, Rows(X_batch))
           bw == backward(fw.self, Len(X_batch), y_batch)
       IN  IF fw.err # "none" THEN Abort(fw.self, fw.err, "forward")
           ELSE IF bw.err # "none" THEN Abort(bw.self, bw.err, "backward")
           ELSE /\ self' = bw.self /\ probs' = Last(bw.self.layers)
                /\ batches' = Append(batches, X_batch)
                /\ batch' = batch + self.batch_size
                /\ pc' = IF batch + self.batch_size < Len(X) THEN "batch" ELSE "report"
                /\ err' = "none" /\ at' = "backward"
                /\ UNCHANGED <<X, y, y0, shuffle_data, i, y_mat, fits>>

\* lines 182-186: the report every verbose epochs
EpochReport ==
    /\ pc = "report"
    /\ \E strict \in BOOLEAN :
       LET cl == compute_loss(self, Rows(X), y)
           sc == score(cl.self, Rows(X), y, strict)
       IN  IF self.verbose = 0 THEN Abort(self, "ZeroDivisionError", "report")
           ELSE IF ~Reports(i, self.verbose)
           THEN /\ i' = i + 1 /\ pc' = "epoch" /\ err' = "none" /\ at' = "report"
                /\ UNCHANGED <<self, X, y, y0, shuffle_data, batch, probs,
                               y_mat, batches, fits>>
           ELSE IF cl.err # "none"
           THEN Abort(cl.self, cl.err, "report")
           ELSE IF sc.err # "none" THEN Abort(sc.self, sc.err, "report")
           ELSE /\ self' = sc.self /\ y_mat' = cl.y_mat
                /\ i' = i + 1 /\ pc' = "epoch" /\ err' = "none" /\ at' = "report"
                /\ UNCHANGED <<X, y, y0, shuffle_data, batch, probs,
                               batches, fits>>

\* a call of predict(X), score(X, y) or compute_loss(X, y) between fits
Predict ==
    /\ pc = "idle"
    /\ \E n \in 1..MaxSamples :
          LET r == predict(self, Rows(Ids(n))) IN
          /\ self' = r.self /\ err' = r.err
    /\ pc' = "done" /\ at' = "predict" /\ y_mat' = <<>>
    /\ Dead /\ UNCHANGED fits

Score ==
    /\ pc = "idle"
    /\ \E n \in 1..MaxSamples, m \in 1..MaxSamples, strict \in BOOLEAN :
          LET r == score(self, Rows(Ids(n)), [k \in 1..m |-> 0], strict) IN
          /\ self' = r.self /\ err' = r.err
    /\ pc' = "done" /\ at' = "score" /\ y_mat' = <<>>
    /\ Dead /\ UNCHANGED fits

ComputeLoss ==
    /\ pc = "idle"
    /\ \E n \in 1..MaxSamples :
       \E yy \in Labels(n) :
          LET r == compute_loss(self, Rows(Ids(n)), yy) IN
          /\ self' = r.self /\ err' = r.err /\ y_mat' = r.y_mat
          /\ X' = Ids(n) /\ y' = yy
    /\ pc' = "done" /\ at' = "compute_loss"
    /\ y0' = <<>> /\ shuffle_data' = FALSE /\ i' = 0 /\ batch' = 0
    /\ probs' = NoArray /\ batches' = <<>>
    /\ UNCHANGED fits

\* the caller goes on after a call has returned or raised; the call's
\* arguments and results are dropped
Resume ==
    /\ pc = "done"
    /\ pc' = "idle" /\ err' = "none" /\ at' = "idle" /\ y_mat' = <<>>
    /\ Dead /\ UNCHANGED <<self, fits>>

Next ==
    \/ Construct
    \/ Fit
    \/ Predict
    \/ Score
    \/ ComputeLoss
    \/ Resume
    \/ EpochBegin
    \/ FitReturn
    \/ Batch
    \/ EpochReport

Spec == Init /\ [][Next]_vars

\* ========================================================= the claims
InFit == pc \in {"epoch", "batch", "report"}
n_samples == Len(X)

RECURSIVE Concat(_)
Concat(ss) == IF ss = <<>> THEN <<>> ELSE Head(ss) \o Concat(Tail(ss))

\* the members of S in increasing order
Asc(S, n) == SelectSeq(Range0(n), LAMBDA l : l \in S)

\* C1: whatever calls were made on the model, it holds either no parameter
\* pair or exactly one pair per hidden layer plus one.
C1_ParameterPairs ==
    pc # "none" =>
        /\ Len(self.weights) \in {0, self.n_layers + 1}
        /\ Len(self.bias) = Len(self.weights)

\* C2: a fit call whose y has another length than X raises, leaves weights,
\* biases, activation cache and delta cache as they were and processes no
\* mini-batch.
C2_MismatchLeavesModel ==
    [][(pc = "idle" /\ at' = "fit" /\ Len(y') # Len(X'))
        => (err' = "ValueError" /\ self' = self /\ pc' = "done" /\ batches' = <<>>)]_vars

C2_Witness ==
    /\ at = "fit" /\ Len(y) # Len(X) /\ err = "ValueError"
    /\ Len(self.weights) > 0 /\ Len(self.layers) > 0

\* C3: a model with an unsupported activation, output or loss kind is never
\* constructed, so none reaches fit or backward.
C3_UnsupportedKindsRejected ==
    pc # "none" =>
        /\ self.activation \in {"sigmoid", "tanh"}
        /\ self.output_layer = "softmax"
        /\ self.loss = "cross_entropy"

\* C4: with a positive batch size b, the mini-batches of an epoch are
\* consecutive slices that cover every sample once, all of b samples but
\* possibly the last; with b > n the epoch is one batch of all n samples and
\* processing it raises no error.
C4_BatchesPartitionEpoch ==
    [][/\ (pc' = "report" /\ self'.batch_size > 0) =>
            /\ Concat(batches') = X'
            /\ \A k \in 1..Len(batches') :
                  /\ Len(batches'[k]) >= 1
                  /\ Len(batches'[k]) <= self'.batch_size
                  /\ k < Len(batches') => Len(batches'[k]) = self'.batch_size
            /\ self'.batch_size > Len(X') => Len(batches') = 1
       /\ (pc = "batch" /\ self.batch_size > n_samples) => (err' = "none" /\ pc' = "report")
      ]_vars

\* C5: the one-hot matrix compute_loss builds from labels in [0, n_classes)
\* has one row per label and n_classes columns, each row with a single 1 at
\* the column of its label; building it raises no IndexError (with a
\* non-empty activation cache, forward raises none, so an IndexError of
\* compute_loss is onehot's).
C5_OnehotMatrix ==
    /\ y_mat # <<>> =>
          /\ Len(y_mat) = Len(y)
          /\ \A r \in 1..Len(y_mat) :
                /\ Len(y_mat[r]) = self.nclass
                /\ \A k \in 1..Len(y_mat[r]) : y_mat[r][k] = IF k - 1 = y[r] THEN 1 ELSE 0
    /\ (at = "compute_loss" /\ Len(self.layers) > 0) => err # "IndexError"

\* C6: during fit, X and y are the call's samples and labels in some order,
\* every sample still with its own label.
C6_PairingPreserved ==
    InFit =>
        /\ Len(X) = Len(y0) /\ Len(y) = Len(y0)
        /\ \A k \in 1..Len(y0) : \E j \in 1..Len(X) : X[j] = k
        /\ \A j \in 1..Len(X) : X[j] \in 1..Len(y0) /\ y[j] = y0[X[j]]

C6_Witness ==
    /\ pc = "report" /\ shuffle_data /\ i >= 1
    /\ X # Ids(Len(X)) /\ y # y0

\* C7: a last mini-batch shorter than the batch size goes through forward
\* and backward without error, every activation and delta matrix having the
\* rows of the short batch.
C7_ShortBatch ==
    [][(pc = "batch" /\ Len(X_batch) < self.batch_size) =>
        /\ err' = "none"
        /\ \A k \in 1..Len(self'.layers) : self'.layers[k].rows = Len(X_batch)
        /\ \A k \in 1..Len(self'.deltas) : self'.deltas[k].rows = Len(X_batch)
      ]_vars

\* C8: a model with a non-positive batch size, a non-positive reporting
\* interval or no hidden layer never holds parameters and never runs a batch.
C8_InvalidArgsRejected ==
    (pc # "none" /\ (self.batch_size <= 0 \/ self.verbose <= 0
                     \/ self.hidden_layer_size = <<>>)) =>
        /\ Len(self.weights) = 0
        /\ pc \notin {"batch", "report"}

\* C9: after backward has returned, the output layer of the activation cache
\* and the array forward returned still hold the softmax probabilities.
C9_BackwardKeepsProbs ==
    (at = "backward" /\ err = "none") =>
        /\ Last(self.layers).val = "probs"
        /\ probs.val = "probs"

\* C10: in a backward call that returns, every hidden delta is computed from
\* the weights as they were when the call began, an update of one layer
\* changes and reads nothing of another, and so the updates give the same
\* parameters in any order.
C10_UpdatesIndependent ==
    [][(pc = "batch" /\ at' = "backward" /\ err' = "none") =>
        LET called == forward(self, Rows(X_batch)).self
            D == HiddenDeltas(OutputDelta(Ok(called), Len(X_batch), y_batch),
                              self.n_layers - 1)
            K == Len(self.weights)
        IN  /\ \A k \in 0..(self.n_layers - 1) :
                  Get(self'.deltas, k).dep = Get(called.weights, k + 1).ver
            \* after[S]: the layers of S updated, in increasing order
            \* (@@ <<>> has TLC tabulate the function once)
            /\ LET after == [S \in SUBSET (0..(K - 1)) |->
                                UpdateWeights(D, Asc(S, K))] @@ <<>>
               IN  \A S \in SUBSET (0..(K - 1)) : \A l \in (0..(K - 1)) \ S :
                      UpdateLayer(after[S], l) = after[S \cup {l}]
            /\ self' = UpdateWeights(D, Reversed(Range0(K))).self
      ]_vars

C10_Witness ==
    /\ at = "backward" /\ err = "none" /\ InFit
    /\ self.n_layers = 2
    /\ \A k \in 1..Len(self.weights) : self.weights[k].ver >= 1

====
